---------------------------- MODULE Spec2Model ----------------------------
(***************************************************************************)
(* A model of the httptest mock server (src/server.rs): the expectation     *)
(* registry behind Arc<Mutex<ServerStateInner>>, the per request handler    *)
(* on_req, Server::expect, Server::verify_and_clear and Drop for Server.    *)
(*                                                                         *)
(* The test thread owns the Server handle; every request is handled by a    *)
(* task of the listener thread running on_req.  A task takes the mutex,     *)
(* scans the registry, counts, drops the guard and only then awaits the     *)
(* response future.  The statements of on_req are interleaved freely, so    *)
(* the mutex is the only thing that serialises the critical sections.      *)
(***************************************************************************)
EXTENDS Integers, Sequences, FiniteSets

(* ------------------------------ bounds --------------------------------- *)
MaxN == 2          \* largest usize used inside a Times value
MaxExpect == 2     \* longest registry the test builds
MaxExpectConc == 1 \* longest registry under concurrent requests
MaxTasks == 2      \* requests that can be in flight at once
MaxDispatch == 3   \* requests received over the life of the server
MaxHeaders == 3    \* most header lines of a request given to a mapper

(* ------------------------------ values --------------------------------- *)
\* Option::None of a response future or of a response not sent.
None == [kind |-> "None", responder |-> 0, status |-> 0]
NoRequest == "none"

\* The requests the unit under test can send.
Requests == {"GET /foo", "GET /bar"}

\* A Box<dyn Matcher<FullRequest>> is an opaque pure predicate on requests;
\* it is represented by the set of requests it accepts.
Matchers == {{"GET /foo"}, {"GET /foo", "GET /bar"}}

matches(matcher, req) == req \in matcher

\* enum Times, with the usizes up to MaxN and the ranges lo..=hi, lo <= hi.
Times ==
    {[kind |-> "Any", lo |-> 0, hi |-> 0]}
    \cup {[kind |-> "AtLeast", lo |-> n, hi |-> 0] : n \in 0..MaxN}
    \cup {[kind |-> "AtMost", lo |-> 0, hi |-> n] : n \in 0..MaxN}
    \cup {[kind |-> "Between", lo |-> range[1], hi |-> range[2]] :
            range \in {x \in (0..MaxN) \X (0..MaxN) : x[1] <= x[2]}}
    \cup {[kind |-> "Exactly", lo |-> n, hi |-> n] : n \in 0..MaxN}

Any == [kind |-> "Any", lo |-> 0, hi |-> 0]
AtLeast(n) == [kind |-> "AtLeast", lo |-> n, hi |-> 0]
AtMost(n) == [kind |-> "AtMost", lo |-> 0, hi |-> n]
Between(l, h) == [kind |-> "Between", lo |-> l, hi |-> h]
Exactly(n) == [kind |-> "Exactly", lo |-> n, hi |-> n]

\* Exactly(limit) taken as exceeded once the limit is reached.
cardinality_not_exceeded_strict(cardinality, hit_count) ==
    CASE cardinality.kind = "Any" -> TRUE
      [] cardinality.kind = "AtLeast" -> TRUE
      [] cardinality.kind = "AtMost" -> hit_count <= cardinality.hi
      [] cardinality.kind = "Between" -> hit_count <= cardinality.hi
      [] cardinality.kind = "Exactly" -> hit_count < cardinality.hi

cardinality_not_exceeded(cardinality, hit_count) ==
    CASE cardinality.kind = "Any" -> TRUE
      [] cardinality.kind = "AtLeast" -> TRUE
      [] cardinality.kind = "AtMost" -> hit_count <= cardinality.hi
      [] cardinality.kind = "Between" -> hit_count <= cardinality.hi
      [] cardinality.kind = "Exactly" -> hit_count <= cardinality.hi

\* AtLeast(lower_bound) that wants more than lower_bound requests.
hit_count_is_valid_strict(cardinality, hit_count) ==
    CASE cardinality.kind = "Any" -> TRUE
      [] cardinality.kind = "AtLeast" -> hit_count > cardinality.lo
      [] cardinality.kind = "AtMost" -> hit_count <= cardinality.hi
      [] cardinality.kind = "Between" ->
            hit_count <= cardinality.hi /\ hit_count >= cardinality.lo
      [] cardinality.kind = "Exactly" -> hit_count = cardinality.hi

hit_count_is_valid(cardinality, hit_count) ==
    CASE cardinality.kind = "Any" -> TRUE
      [] cardinality.kind = "AtLeast" -> hit_count >= cardinality.lo
      [] cardinality.kind = "AtMost" -> hit_count <= cardinality.hi
      [] cardinality.kind = "Between" ->
            hit_count <= cardinality.hi /\ hit_count >= cardinality.lo
      [] cardinality.kind = "Exactly" -> hit_count = cardinality.hi

\* ExpectationBuilder: matching(matcher) starts with Exactly(1), times(c)
\* replaces the cardinality, respond_with(responder) sets hit_count to 0.
ExpectationBuilderAny(matcher) == [matcher |-> matcher, cardinality |-> Any]

ExpectationBuilder(matcher) == [matcher |-> matcher, cardinality |-> Exactly(1)]

times(builder, cardinality) == [builder EXCEPT !.cardinality = cardinality]

respond_with(builder, responder) ==
    [matcher |-> builder.matcher,
     cardinality |-> builder.cardinality,
     responder |-> responder,
     hit_count |-> 0]

\* The responses on_req can produce: the future of the selected
\* expectation's responder, cardinality_error(..) and "No matcher found".
Responder(r) == [kind |-> "Responder", responder |-> r, status |-> 0]
CardinalityError == [kind |-> "CardinalityError", responder |-> 0, status |-> 500]
NoMatcherFound == [kind |-> "NoMatcherFound", responder |-> 0, status |-> 500]

Tasks == 1..MaxTasks

(* ------------------------------- state --------------------------------- *)
VARIABLES
    expected,             \* ServerStateInner.expected
    unexpected_requests,  \* ServerStateInner.unexpected_requests
    holder,               \* the task holding the MutexGuard, 0 when free
    poisoned,             \* the poison flag of the Mutex
    pc,                   \* position of every on_req task
    req,                  \* the request of every task
    sel,                  \* index the scan of a task stopped at, 0 for none
    response_future,      \* the response_future local of a task
    hit,                  \* the counter value a task loaded, then stored
    resp,                 \* what a task sent back
    seen,                 \* the registry as a task found it under the lock
    testpc,               \* position of the test thread
    panicking,            \* std::thread::panicking() of the test thread
    listener,             \* the listener thread
    lastVerify,           \* how the verify_and_clear call just made ended
    dispatched,           \* requests handed to on_req since the last reset
    input,                \* the http::Request a request mapper is applied to
    mapper,               \* the request mapper applied last
    passed,               \* what it passed to its inner mappers, in order
    out                   \* what its map() returned

vars == <<expected, unexpected_requests, holder, poisoned, pc, req, sel,
          hit, response_future, resp, seen, testpc, panicking, listener,
          lastVerify, dispatched, input, mapper, passed, out>>

srvVars == <<expected, unexpected_requests, holder, poisoned>>
taskVars == <<pc, req, sel, hit, response_future, resp>>

\* What a task remembers of the registry it locked: the contents at the
\* lock, fresh until somebody else changes the registry, live until the
\* registry is cleared.  Forgotten is the record of a task that remembers
\* nothing.
Forgotten ==
    [fresh |-> FALSE, live |-> FALSE, expected |-> <<>>,
     unexpected_requests |-> 0]

Found ==
    [fresh |-> TRUE, live |-> TRUE, expected |-> expected,
     unexpected_requests |-> unexpected_requests]

Stale(t) == [Forgotten EXCEPT !.live = seen[t].live]

\* The verify_and_clear call that has just returned: how it ended and the
\* state it was called in.  NoVerify when the last step was no such call.
NoVerify ==
    [outcome |-> "none", expected |-> <<>>, unexpected_requests |-> 0,
     panicking |-> FALSE]
testVars == <<testpc, panicking, listener, lastVerify>>
mapVars == <<input, mapper, passed, out>>

\* A KV of the header sequence, and the requests given to the mappers of
\* mappers/request.rs: method, path, the Option of uri().query() (<<>> is
\* None, <<q>> is Some(q)) and the header lines in the order received.
KV(k, v) == [k |-> k, v |-> v]

HeaderLines == {KV(k, v) : k \in {"a", "b"}, v \in {"1", "2", "3"}}

RECURSIVE SeqsUpTo(_, _)
SeqsUpTo(S, n) ==
    IF n = 0 THEN {<<>>}
    ELSE LET shorter == SeqsUpTo(S, n - 1)
         IN shorter \cup {Append(q, x) : q \in shorter, x \in S}

HttpRequests ==
    [method : {"GET", "POST"},
     path : {"/foo", "/foobar", "/"},
     query : {<<>>, <<"">>, <<"search=1">>},
     headers : SeqsUpTo(HeaderLines, MaxHeaders)]

\* No mapper has been applied yet.
NoMapper == <<"none">>
NoInput == [method |-> "GET", path |-> "/", query |-> <<>>, headers |-> <<>>]

\* The server alone: no request mapper is under test.
ServerInit ==
    /\ input = NoInput
    /\ mapper = NoMapper
    /\ passed = <<>>
    /\ out = FALSE

\* ServerStateInner::default() and Server::run
Running ==
    /\ expected = <<>>
    /\ unexpected_requests = 0
    /\ holder = 0
    /\ poisoned = FALSE
    /\ pc = [t \in Tasks |-> "idle"]
    /\ req = [t \in Tasks |-> NoRequest]
    /\ sel = [t \in Tasks |-> 0]
    /\ hit = [t \in Tasks |-> 0]
    /\ response_future = [t \in Tasks |-> None]
    /\ resp = [t \in Tasks |-> None]
    /\ seen = [t \in Tasks |-> Forgotten]
    /\ testpc = "body"
    /\ panicking = FALSE
    /\ listener = "serving"
    /\ lastVerify = NoVerify
    /\ dispatched = 0

Init == Running /\ ServerInit

(* ------------------------------ the mutex ------------------------------ *)
\* A lock that never blocks.
LockIgnored == TRUE

\* Mutex::lock blocks until no guard is alive.
LockFree == holder = 0

(* ------------------------------- on_req -------------------------------- *)
\* The index on which the reverse scan of on_req breaks: the last
\* registered expectation whose matcher matches, 0 when the iterator ends.
\* A scan that passes over a matching expectation that is exceeded already.
RECURSIVE ScanRevSkipBlown(_, _, _)
ScanRevSkipBlown(exps, i, r) ==
    IF i = 0 THEN 0
    ELSE IF /\ matches(exps[i].matcher, r)
            /\ cardinality_not_exceeded(exps[i].cardinality,
                                        exps[i].hit_count)
    THEN i
    ELSE ScanRevSkipBlown(exps, i - 1, r)

RECURSIVE ScanRev(_, _, _)
ScanRev(exps, i, r) ==
    IF i = 0 THEN 0
    ELSE IF matches(exps[i].matcher, r) THEN i
    ELSE ScanRev(exps, i - 1, r)

\* A scan in registration order: the oldest matching expectation wins.
RECURSIVE ScanFwd(_, _, _)
ScanFwd(exps, i, r) ==
    IF i > Len(exps) THEN 0
    ELSE IF matches(exps[i].matcher, r) THEN i
    ELSE ScanFwd(exps, i + 1, r)

FirstMatchOldest(exps, r) == ScanFwd(exps, 1, r)

FirstMatch(exps, r) == ScanRev(exps, Len(exps), r)

RECURSIVE SumHits(_, _)
SumHits(exps, i) ==
    IF i = 0 THEN 0 ELSE exps[i].hit_count + SumHits(exps, i - 1)

\* Requests being counted, plus the requests counted since the registry
\* was last cleared.
Load ==
    Cardinality({t \in Tasks : pc[t] = "count"})
    + SumHits(expected, Len(expected)) + unexpected_requests

\* A task slot is free for the next request once its last one is over.
Free(t) == pc[t] \in {"idle", "done", "panicked"}

\* The listener hands a buffered request r to a fresh on_req task, whose
\* state.lock() finds the mutex poisoned: expect("mutex poisoned") panics
\* and the task ends without a response.
OnReqLockPoisoned(t, r) ==
    /\ listener = "serving"
    /\ Free(t)
    /\ LockFree
    /\ poisoned
    /\ dispatched < MaxDispatch
    /\ dispatched' = dispatched + 1
    /\ pc' = [pc EXCEPT ![t] = "panicked"]
    /\ response_future' = [response_future EXCEPT ![t] = None]
    /\ resp' = [resp EXCEPT ![t] = None]
    /\ seen' = [seen EXCEPT ![t] = Forgotten]
    /\ lastVerify' = NoVerify
    /\ UNCHANGED <<srvVars, req, sel, hit, testpc, panicking, listener>>

\* The listener hands a buffered request r to a fresh on_req task:
\* state.lock(), the reverse scan up to the first matching expectation and
\* the load of the counter that `+= 1` is about to change.
OnReqScan(t, r) ==
    /\ listener = "serving"
    /\ Free(t)
    /\ Load < MaxDispatch
    /\ LockFree
    /\ ~poisoned
    /\ dispatched' = dispatched + 1
    /\ holder' = t
    /\ req' = [req EXCEPT ![t] = r]
    /\ sel' = [sel EXCEPT ![t] = FirstMatch(expected, r)]
    /\ hit' = [hit EXCEPT ![t] =
                 IF sel'[t] # 0 THEN expected[sel'[t]].hit_count
                 ELSE unexpected_requests]
    /\ pc' = [pc EXCEPT ![t] = "count"]
    /\ response_future' = [response_future EXCEPT ![t] = None]
    /\ resp' = [resp EXCEPT ![t] = None]
    /\ seen' = [seen EXCEPT ![t] = Found]
    /\ lastVerify' = NoVerify
    /\ UNCHANGED <<expected, unexpected_requests, poisoned, testpc,
                   panicking, listener>>

\* The envelope checked against the count before the increment.
FutureOfStale(expectation) ==
    IF cardinality_not_exceeded(expectation.cardinality,
                                expectation.hit_count - 1)
    THEN Responder(expectation.responder)
    ELSE CardinalityError

\* The response_future the matched expectation yields after its increment.
FutureOf(expectation) ==
    IF cardinality_not_exceeded(expectation.cardinality, expectation.hit_count)
    THEN Responder(expectation.responder)
    ELSE CardinalityError

\* A guard that lives as long as the task.
GuardKept(t) == holder

\* The MutexGuard `state` goes out of scope at the end of the block that
\* computes response_future.
GuardDropped(t) == IF holder = t THEN 0 ELSE holder

\* The store of hit_count += 1 on the selected expectation, or of
\* unexpected_requests += 1; the response_future is made and the guard is
\* dropped at the end of the block.
OnReqCount(t) ==
    /\ pc[t] = "count"
    /\ IF sel[t] # 0
       THEN /\ expected' = [expected EXCEPT ![sel[t]].hit_count = hit[t] + 1]
            /\ response_future' =
                  [response_future EXCEPT ![t] = FutureOf(expected'[sel[t]])]
            /\ UNCHANGED unexpected_requests
       ELSE /\ unexpected_requests' = hit[t] + 1
            /\ response_future' = [response_future EXCEPT ![t] = None]
            /\ UNCHANGED expected
    /\ hit' = [hit EXCEPT ![t] = hit[t] + 1]
    /\ holder' = GuardDropped(t)
    /\ pc' = [pc EXCEPT ![t] = "await"]
    /\ seen' = [u \in Tasks |-> IF u = t THEN seen[u] ELSE Stale(u)]
    /\ lastVerify' = NoVerify
    /\ UNCHANGED <<poisoned, req, sel, resp, testpc, panicking, listener,
                   dispatched>>

\* "No matcher found" sent where a response was awaited.
SentNoMatcher(future) == NoMatcherFound

\* if let Some(f) = response_future { f.await } else { "No matcher found" }
Sent(future) == IF future # None THEN future ELSE NoMatcherFound

\* The response is sent and the task is over.
OnReqRespond(t) ==
    /\ pc[t] = "await"
    /\ resp' = [resp EXCEPT ![t] = Sent(response_future[t])]
    /\ pc' = [pc EXCEPT ![t] = "done"]
    /\ req' = [req EXCEPT ![t] = NoRequest]
    /\ sel' = [sel EXCEPT ![t] = 0]
    /\ hit' = [hit EXCEPT ![t] = 0]
    /\ seen' = [seen EXCEPT ![t] = Forgotten]
    /\ lastVerify' = NoVerify
    /\ UNCHANGED <<srvVars, response_future, testpc, panicking, listener,
                   dispatched>>

(* --------------------------- the test thread --------------------------- *)
\* The expectations the test builds: matching(m), optionally times(c),
\* respond_with(r).  Every expectation owns its responder, which is named
\* by the position the expectation gets in the registry.
Built(m, c, r) == respond_with(times(ExpectationBuilder(m), c), r)

Default(m, r) == respond_with(ExpectationBuilder(m), r)

\* A push_expectation that takes the registry out of a poisoned lock
\* (PoisonError::into_inner) and goes on.
push_expectation_into_inner(expectation) ==
    /\ testpc = "body"
    /\ ~panicking
    /\ LockFree
    /\ Len(expected) < MaxExpect
    /\ expected' = Append(expected, expectation)
    /\ UNCHANGED panicking
    /\ seen' = [t \in Tasks |-> Stale(t)]
    /\ lastVerify' = NoVerify
    /\ UNCHANGED <<unexpected_requests, holder, poisoned, taskVars, testpc,
                   listener, dispatched>>

\* ServerState::push_expectation, called by Server::expect.  On a poisoned
\* mutex lock() panics and the test thread unwinds.
push_expectation(expectation) ==
    /\ testpc = "body"
    /\ ~panicking
    /\ LockFree
    /\ IF poisoned
       THEN /\ panicking' = TRUE
            /\ UNCHANGED expected
       ELSE /\ Len(expected) < MaxExpect
            /\ expected' = Append(expected, expectation)
            /\ UNCHANGED panicking
    /\ seen' = [t \in Tasks |-> Stale(t)]
    /\ lastVerify' = NoVerify
    /\ UNCHANGED <<unexpected_requests, holder, poisoned, taskVars, testpc,
                   listener, dispatched>>

\* Server::expect of an expectation built with times(c).
Expect(m, c) == push_expectation(Built(m, c, Len(expected) + 1))

\* Server::expect of an expectation built without times(..).
ExpectDefault(m) == push_expectation(Default(m, Len(expected) + 1))

\* The first expectation verify_and_clear panics on, 0 when all are valid.
RECURSIVE FirstInvalidFrom(_, _)
FirstInvalidFrom(exps, i) ==
    IF i > Len(exps) THEN 0
    ELSE IF ~hit_count_is_valid(exps[i].cardinality, exps[i].hit_count) THEN i
    ELSE FirstInvalidFrom(exps, i + 1)

\* A verify_and_clear that skips the loop over the expectations.
FirstInvalidSkipped(exps) == 0

FirstInvalid(exps) == FirstInvalidFrom(exps, 1)

\* A verify_and_clear that forgets the unexpected requests.
VerifyOutcomeNoUnexpected(isPanicking) ==
    IF poisoned THEN "panic_poisoned"
    ELSE IF isPanicking THEN "cleared"
    ELSE IF FirstInvalid(expected) # 0 THEN "panic_cardinality"
    ELSE "ok"

\* How a call of verify_and_clear ends in the current state.
VerifyOutcome(isPanicking) ==
    IF poisoned THEN "panic_poisoned"
    ELSE IF isPanicking THEN "cleared"
    ELSE IF FirstInvalid(expected) # 0 THEN "panic_cardinality"
    ELSE IF unexpected_requests # 0 THEN "panic_unexpected"
    ELSE "ok"

\* A verify that checks and leaves the state as it is.
verify_no_clear(isPanicking) ==
    /\ LockFree
    /\ lastVerify' = [outcome |-> VerifyOutcome(isPanicking),
                      expected |-> expected,
                      unexpected_requests |-> unexpected_requests,
                      panicking |-> isPanicking]
    /\ CASE lastVerify'.outcome = "panic_poisoned" ->
              UNCHANGED <<expected, unexpected_requests, poisoned>>
         [] lastVerify'.outcome \in {"cleared", "ok"} ->
              UNCHANGED <<expected, unexpected_requests, poisoned>>
         [] lastVerify'.outcome \in {"panic_cardinality", "panic_unexpected"} ->
              /\ poisoned' = TRUE
              /\ UNCHANGED <<expected, unexpected_requests>>
    /\ dispatched' = IF lastVerify'.outcome = "ok" THEN 0 ELSE dispatched
    /\ seen' = [t \in Tasks |-> Forgotten]
    /\ UNCHANGED holder

\* Server::verify_and_clear.  A panic raised while the guard is alive
\* poisons the mutex when the guard is dropped by the unwinding.
verify_and_clear(isPanicking) ==
    /\ LockFree
    /\ lastVerify' = [outcome |-> VerifyOutcome(isPanicking),
                      expected |-> expected,
                      unexpected_requests |-> unexpected_requests,
                      panicking |-> isPanicking]
    /\ CASE lastVerify'.outcome = "panic_poisoned" ->
              UNCHANGED <<expected, unexpected_requests, poisoned>>
         [] lastVerify'.outcome = "cleared" ->
              /\ expected' = <<>>
              /\ UNCHANGED <<unexpected_requests, poisoned>>
         [] lastVerify'.outcome \in {"panic_cardinality", "panic_unexpected"} ->
              /\ poisoned' = TRUE
              /\ UNCHANGED <<expected, unexpected_requests>>
         [] lastVerify'.outcome = "ok" ->
              /\ expected' = <<>>
              /\ unexpected_requests' = 0
              /\ UNCHANGED poisoned
    /\ dispatched' = IF lastVerify'.outcome = "ok" THEN 0 ELSE dispatched
    /\ seen' = [t \in Tasks |-> Forgotten]
    /\ UNCHANGED holder

\* The test calls verify_and_clear; a panic is caught by the test
\* (catch_unwind, caught = TRUE) or unwinds the test thread.
Verify(caught) ==
    /\ testpc = "body"
    /\ ~panicking
    /\ verify_and_clear(FALSE)
    /\ panicking' = (lastVerify'.outcome # "ok" /\ ~caught)
    /\ UNCHANGED <<taskVars, testpc, listener>>

\* A Drop that goes on to verify without shutting the listener down.
DropNoJoin(unwind) ==
    /\ testpc = "body"
    /\ holder = 0
    /\ testpc' = "joined"
    /\ panicking' = (panicking \/ unwind)
    /\ seen' = [t \in Tasks |-> Forgotten]
    /\ lastVerify' = NoVerify
    /\ UNCHANGED <<srvVars, taskVars, listener, dispatched>>

\* Drop for Server up to join(): the Server goes out of scope at the end
\* of the test or, with unwind, because the test body panics.  Dropping
\* trigger_shutdown ends the select! of the listener thread, the runtime is
\* dropped together with the tasks in flight, and join() returns.
DropJoin(unwind) ==
    /\ testpc = "body"
    /\ holder = 0
    /\ testpc' = "joined"
    /\ panicking' = (panicking \/ unwind)
    /\ listener' = "stopped"
    /\ pc' = [t \in Tasks |-> "stopped"]
    /\ req' = [t \in Tasks |-> NoRequest]
    /\ sel' = [t \in Tasks |-> 0]
    /\ hit' = [t \in Tasks |-> 0]
    /\ response_future' = [t \in Tasks |-> None]
    /\ resp' = [t \in Tasks |-> None]
    /\ seen' = [t \in Tasks |-> Forgotten]
    /\ lastVerify' = NoVerify
    /\ UNCHANGED <<srvVars, dispatched>>

\* Drop for Server, last statement: verify_and_clear.
DropVerify ==
    /\ testpc = "joined"
    /\ verify_and_clear(panicking)
    /\ testpc' = "end"
    /\ panicking' = (panicking \/ lastVerify'.outcome \notin {"ok", "cleared"})
    /\ UNCHANGED <<taskVars, listener>>

(* ------------------------- mappers/request.rs -------------------------- *)
\* A Mapper<str, Out = bool> is a pure predicate on strings, represented by
\* the set of strings it accepts and applied with matches(..).
MethodMatchers == {{"GET"}, {"POST"}, {"GET", "POST"}}
PathMatchers == {{"/foo"}, {"/"}, {"/foo", "/foobar"}}
QueryMatchers == {{""}, {"search=1"}}

\* Option::unwrap_or
unwrap_or(option, default) == IF option = <<>> THEN default ELSE option[1]

\* What Method, Path and Query hand to their inner mapper.
MethodText(request) == request.method

PathText(request) == request.path

\* A query extraction that has no text for a URI without query.
QueryTextMissing(request) == unwrap_or(request.query, "<no query>")

QueryText(request) == unwrap_or(request.query, "")

\* MethodPath with `||` between the two inner mappers.
MethodPathEither(m, p, request) ==
    matches(m, MethodText(request)) \/ matches(p, PathText(request))

\* MethodPath::map: method.map(..) && path.map(..)
MethodPathMap(m, p, request) ==
    matches(m, MethodText(request)) /\ matches(p, PathText(request))

\* `&&` calls its right operand only when the left one returned true.
MethodPathPassed(m, p, request) ==
    IF matches(m, MethodText(request))
    THEN <<MethodText(request), PathText(request)>>
    ELSE <<MethodText(request)>>

\* all_of![method(m), path(p)]: true iff every mapper of the list returns
\* true, the mappers being called in order up to the first that returns
\* false.  A list entry is <<extraction, inner mapper>>.
Extracted(entry, request) ==
    IF entry[1] = "method" THEN MethodText(request) ELSE PathText(request)

AllOfMap(list, request) ==
    \A i \in 1..Len(list) : matches(list[i][2], Extracted(list[i], request))

RECURSIVE AllOfPassedFrom(_, _, _)
AllOfPassedFrom(list, i, request) ==
    IF i > Len(list) THEN <<>>
    ELSE IF matches(list[i][2], Extracted(list[i], request))
    THEN <<Extracted(list[i], request)>> \o AllOfPassedFrom(list, i + 1, request)
    ELSE <<Extracted(list[i], request)>>

AllOfPassed(list, request) == AllOfPassedFrom(list, 1, request)

\* http::HeaderMap keeps one entry per header name, in the order the names
\* were first appended, and chains the further values of a name to its
\* entry; iter() walks the entries and yields all values of an entry
\* before it moves to the next entry.
RECURSIVE EntryNames(_, _)
EntryNames(lines, i) ==
    IF i = 0 THEN <<>>
    ELSE LET names == EntryNames(lines, i - 1)
         IN IF \E j \in 1..Len(names) : names[j] = lines[i].k
            THEN names
            ELSE Append(names, lines[i].k)

ValuesOf(lines, name) == SelectSeq(lines, LAMBDA kv : kv.k = name)

RECURSIVE IterFrom(_, _, _)
IterFrom(lines, names, i) ==
    IF i > Len(names) THEN <<>>
    ELSE ValuesOf(lines, names[i]) \o IterFrom(lines, names, i + 1)

HeaderMapIter(lines) == IterFrom(lines, EntryNames(lines, Len(lines)), 1)

\* Headers::map: input.headers().iter().map(..).collect()
HeadersCollected(request) == HeaderMapIter(request.headers)

\* contains(kv): some element of the sequence equals kv.
contains(kv, sequence) == \E i \in 1..Len(sequence) : sequence[i] = kv

serverVars == <<srvVars, taskVars, seen, testVars, dispatched>>

\* method_path(m, p).map(&input)
MapMethodPath(m, p) ==
    /\ mapper' = <<"method_path", m, p>>
    /\ passed' = MethodPathPassed(m, p, input)
    /\ out' = MethodPathMap(m, p, input)
    /\ UNCHANGED <<input, serverVars>>

\* all_of![method(m), path(p)].map(&input)
MapAllOf(m, p) ==
    /\ mapper' = <<"all_of", m, p>>
    /\ passed' = AllOfPassed(<<<<"method", m>>, <<"path", p>>>>, input)
    /\ out' = AllOfMap(<<<<"method", m>>, <<"path", p>>>>, input)
    /\ UNCHANGED <<input, serverVars>>

\* query(q).map(&input)
MapQuery(q) ==
    /\ mapper' = <<"query", q>>
    /\ passed' = <<QueryText(input)>>
    /\ out' = matches(q, QueryText(input))
    /\ UNCHANGED <<input, serverVars>>

\* headers(contains(kv)).map(&input)
MapHeaders(kv) ==
    /\ mapper' = <<"headers", kv>>
    /\ passed' = <<HeadersCollected(input)>>
    /\ out' = contains(kv, HeadersCollected(input))
    /\ UNCHANGED <<input, serverVars>>

(* --------------------------- specification ----------------------------- *)
\* The unit under test sends its requests one at a time.
Next ==
    \/ \E r \in Requests : OnReqLockPoisoned(1, r) /\ UNCHANGED mapVars
    \/ \E r \in Requests : OnReqScan(1, r) /\ UNCHANGED mapVars
    \/ OnReqCount(1) /\ UNCHANGED mapVars
    \/ OnReqRespond(1) /\ UNCHANGED mapVars
    \/ \E m \in Matchers, c \in Times : Expect(m, c) /\ UNCHANGED mapVars
    \/ \E m \in Matchers : ExpectDefault(m) /\ UNCHANGED mapVars
    \/ \E caught \in BOOLEAN : Verify(caught) /\ UNCHANGED mapVars
    \/ \E unwind \in BOOLEAN : DropJoin(unwind) /\ UNCHANGED mapVars
    \/ DropVerify /\ UNCHANGED mapVars

Spec == Init /\ [][Next]_vars

\* Up to MaxTasks requests are in flight at once, against a registry of at
\* most MaxExpectConc expectations.
NextConc ==
    \/ \E t \in Tasks, r \in Requests : OnReqLockPoisoned(t, r) /\ UNCHANGED mapVars
    \/ \E t \in Tasks, r \in Requests : OnReqScan(t, r) /\ UNCHANGED mapVars
    \/ \E t \in Tasks : OnReqCount(t) /\ UNCHANGED mapVars
    \/ \E t \in Tasks : OnReqRespond(t) /\ UNCHANGED mapVars
    \/ \E m \in Matchers, c \in Times :
          Len(expected) < MaxExpectConc /\ Expect(m, c) /\ UNCHANGED mapVars
    \/ \E m \in Matchers :
          Len(expected) < MaxExpectConc /\ ExpectDefault(m) /\ UNCHANGED mapVars
    \/ \E caught \in BOOLEAN : Verify(caught) /\ UNCHANGED mapVars
    \/ \E unwind \in BOOLEAN : DropJoin(unwind) /\ UNCHANGED mapVars
    \/ DropVerify /\ UNCHANGED mapVars

SpecConc == Init /\ [][NextConc]_vars

\* The request mappers applied to every request of HttpRequests.
InitMap ==
    /\ Running
    /\ input \in HttpRequests
    /\ mapper = NoMapper
    /\ passed = <<>>
    /\ out = FALSE

NextMap ==
    \/ \E m \in MethodMatchers, p \in PathMatchers : MapMethodPath(m, p)
    \/ \E m \in MethodMatchers, p \in PathMatchers : MapAllOf(m, p)
    \/ \E q \in QueryMatchers : MapQuery(q)
    \/ \E kv \in HeaderLines : MapHeaders(kv)

SpecMap == InitMap /\ [][NextMap]_vars

(* ------------------------------ properties ----------------------------- *)
\* A task that has just counted: nobody has changed the registry since.
JustCounted(t) == pc[t] = "await" /\ seen[t].fresh

\* The steps of a behaviour, recognised by what they change.
CountStep(t) == pc[t] = "count" /\ pc'[t] = "await"
RespondStep(t) == pc[t] = "await" /\ pc'[t] = "done"
VerifyCalled == lastVerify'.outcome # "none"
VerifyPanics == {"panic_cardinality", "panic_unexpected", "panic_poisoned"}

\* The two tables of the specification, written out per cardinality.
EnvelopeTable(c, h) ==
    \/ c.kind = "Any"
    \/ c.kind = "AtLeast"
    \/ c.kind = "AtMost" /\ h <= c.hi
    \/ c.kind = "Between" /\ h <= c.hi
    \/ c.kind = "Exactly" /\ h <= c.hi

ValidTable(c, h) ==
    \/ c.kind = "Any"
    \/ c.kind = "AtLeast" /\ h >= c.lo
    \/ c.kind = "AtMost" /\ h <= c.hi
    \/ c.kind = "Between" /\ c.lo <= h /\ h <= c.hi
    \/ c.kind = "Exactly" /\ h = c.hi

MatchingIn(exps, r) == {i \in 1..Len(exps) : matches(exps[i].matcher, r)}

Newest(S) == CHOOSE j \in S : \A k \in S : k <= j

(* C1: when an older expectation E1 and a newer expectation E2 both match
   the request of a dispatch, the select-and-count step of that dispatch
   adds one to the hit counter of the newest matching expectation and
   answers from it, and leaves every older matching expectation and the
   unmatched counter unchanged, whatever the cardinalities and hit counts
   are. *)
C1_NewestMatchWins ==
    \A t \in Tasks :
       (JustCounted(t) /\ Cardinality(MatchingIn(seen[t].expected, req[t])) >= 2) =>
          LET before == seen[t].expected
              e2 == Newest(MatchingIn(before, req[t]))
          IN /\ Len(expected) = Len(before)
             /\ expected[e2] =
                   [before[e2] EXCEPT !.hit_count = before[e2].hit_count + 1]
             /\ \A e1 \in 1..Len(before) : e1 # e2 => expected[e1] = before[e1]
             /\ unexpected_requests = seen[t].unexpected_requests
             /\ response_future[t] \in
                   {Responder(before[e2].responder), CardinalityError}

\* A dispatch has just counted against the newer of two matching
\* expectations, which is blown, while the older one has room and is
\* untouched.
C1_Witness ==
    \E t \in Tasks :
       /\ JustCounted(t)
       /\ Len(expected) = 2
       /\ MatchingIn(seen[t].expected, req[t]) = {1, 2}
       /\ response_future[t] = CardinalityError
       /\ expected[2].hit_count = seen[t].expected[2].hit_count + 1
       /\ expected[1].hit_count = 0
       /\ expected[1].cardinality = Exactly(1)

(* C2: for an expectation with cardinality Exactly(n) that is the only one
   matching a request, the dispatch that brings its hit count to k gets the
   configured response when k <= n and a 500 response when k = n + 1, and
   the response sent back is that one; a verify_and_clear called outside a
   panic on a registry holding only this expectation, with no unmatched
   request, succeeds when the hit count is n and fails when it is n + 1. *)
C2_ExactlyN ==
    /\ \A t \in Tasks :
          (/\ JustCounted(t)
           /\ Cardinality(MatchingIn(seen[t].expected, req[t])) = 1) =>
             LET i == Newest(MatchingIn(seen[t].expected, req[t]))
                 e == seen[t].expected[i]
                 n == e.cardinality.hi
                 k == expected[i].hit_count
             IN e.cardinality.kind = "Exactly" =>
                   /\ k = e.hit_count + 1
                   /\ k <= n => response_future[t] = Responder(e.responder)
                   /\ k > n => /\ response_future[t] = CardinalityError
                               /\ response_future[t].status = 500
    /\ \A t \in Tasks :
          (pc[t] = "done" /\ response_future[t] # None) =>
             resp[t] = response_future[t]
    /\ (/\ lastVerify.outcome # "none"
        /\ ~lastVerify.panicking
        /\ Len(lastVerify.expected) = 1
        /\ lastVerify.unexpected_requests = 0) =>
           LET e == lastVerify.expected[1]
               n == e.cardinality.hi
           IN e.cardinality.kind = "Exactly" =>
                 /\ e.hit_count = n => lastVerify.outcome = "ok"
                 /\ e.hit_count = n + 1 => lastVerify.outcome \in VerifyPanics

\* The second request against an Exactly(1) expectation was answered with
\* the cardinality error, and the verify_and_clear after it has panicked.
C2_Witness ==
    /\ lastVerify.outcome = "panic_cardinality"
    /\ Len(expected) = 1
    /\ expected[1].cardinality = Exactly(1)
    /\ expected[1].hit_count = 2
    /\ unexpected_requests = 0
    /\ pc[1] = "done"
    /\ resp[1] = CardinalityError

(* C3: verify_and_clear, called when the test is not already failing,
   succeeds if and only if the unmatched-request counter is zero and every
   registered expectation's hit_count is valid for its cardinality (Any
   always, AtLeast(n) iff hit_count >= n, AtMost(n) iff hit_count <= n,
   Between(lo,hi) iff lo <= hit_count <= hi, Exactly(n) iff hit_count = n);
   otherwise it panics. *)
C3_VerifyIffValid ==
    (lastVerify.outcome # "none" /\ ~lastVerify.panicking) =>
       /\ lastVerify.outcome = "ok" <=>
             /\ lastVerify.unexpected_requests = 0
             /\ \A i \in 1..Len(lastVerify.expected) :
                   ValidTable(lastVerify.expected[i].cardinality,
                              lastVerify.expected[i].hit_count)
       /\ lastVerify.outcome # "ok" => lastVerify.outcome \in VerifyPanics

\* verify_and_clear has just succeeded on a registry of two expectations
\* that have both been hit.
C3_Witness ==
    /\ lastVerify.outcome = "ok"
    /\ ~lastVerify.panicking
    /\ Len(lastVerify.expected) = 2
    /\ \A i \in 1..2 : lastVerify.expected[i].hit_count > 0
    /\ expected = <<>>

(* C4: when a dispatch selects an expectation, it adds one to its hit_count
   and returns the expectation's configured response if and only if the
   incremented hit_count is within the not-exceeded envelope (Any and
   AtLeast(n) always; AtMost(n), Between(lo,hi) and Exactly(n) while
   hit_count <= n, hi, n); otherwise it returns a synthesized 500
   response.  An Exactly(0) or AtMost(0) expectation never returns its
   configured response. *)
C4_EnvelopeDecidesResponse ==
    /\ \A t \in Tasks :
          (JustCounted(t) /\ MatchingIn(seen[t].expected, req[t]) # {}) =>
             LET i == Newest(MatchingIn(seen[t].expected, req[t]))
                 e == seen[t].expected[i]
                 k == expected[i].hit_count
             IN /\ k = e.hit_count + 1
                /\ response_future[t] = Responder(e.responder) <=>
                      EnvelopeTable(e.cardinality, k)
                /\ ~EnvelopeTable(e.cardinality, k) =>
                      /\ response_future[t] = CardinalityError
                      /\ response_future[t].status = 500
                /\ e.cardinality \in {Exactly(0), AtMost(0)} =>
                      response_future[t] # Responder(e.responder)
    /\ \A t \in Tasks :
          (pc[t] = "done" /\ response_future[t] # None) =>
             resp[t] = response_future[t]
    /\ \A t \in Tasks :
          (pc[t] = "done" /\ resp[t].kind = "Responder") =>
             response_future[t] = resp[t]

\* The first request against an AtMost(0) expectation has been answered
\* with the cardinality error.
C4_Witness ==
    /\ pc[1] = "done"
    /\ resp[1] = CardinalityError
    /\ Len(expected) = 1
    /\ expected[1].cardinality = AtMost(0)
    /\ expected[1].hit_count = 1

\* What the steps of on_req do with a request nothing matches, and what
\* can lower the unmatched counter.
C5_NoMatchStep ==
    /\ \A t \in Tasks :
          (CountStep(t) /\ MatchingIn(expected, req[t]) = {}) =>
             /\ unexpected_requests' = unexpected_requests + 1
             /\ expected' = expected
             /\ response_future'[t] = None
    /\ \A t \in Tasks :
          (RespondStep(t) /\ response_future[t] = None) =>
             /\ resp'[t] = NoMatcherFound
             /\ resp'[t].status = 500
    /\ unexpected_requests' < unexpected_requests => lastVerify'.outcome = "ok"

(* C5: a request dispatched while no registered expectation matches it (in
   particular while none is registered) adds one to the unmatched-request
   counter, changes no expectation, and is answered with the 500 response
   "No matcher found"; the counter only goes back to zero by a successful
   reset, and every later verify_and_clear called while the test is not
   already failing panics. *)
C5_UnmatchedFailsVerify ==
    [][/\ C5_NoMatchStep
       /\ (VerifyCalled /\ unexpected_requests > 0 /\ ~lastVerify'.panicking) =>
             lastVerify'.outcome \in VerifyPanics]_vars

(* C5 as stated: after an unmatched request every later verify_and_clear
   fails, also the one Drop makes while the test is already failing. *)
C5_AnyLaterVerifyFails ==
    [][/\ C5_NoMatchStep
       /\ (VerifyCalled /\ unexpected_requests > 0) =>
             lastVerify'.outcome \in VerifyPanics]_vars

\* A request was answered "No matcher found" with nothing registered, and
\* the verify_and_clear after it has panicked on the unexpected request.
C5_Witness ==
    /\ expected = <<>>
    /\ unexpected_requests = 1
    /\ pc[1] = "done"
    /\ resp[1] = NoMatcherFound
    /\ lastVerify.outcome = "panic_unexpected"

(* C6: a failed verify leaves the endpoint usable: with one expectation
   registered with AtLeast(2) and hit once, after verify_and_clear has
   failed no dispatch dies without a response and no later verify fails on
   the lock. *)
C6_UsableAfterFailedVerify ==
    (/\ poisoned
     /\ Len(expected) = 1
     /\ expected[1].cardinality = AtLeast(2)
     /\ expected[1].hit_count = 1
     /\ unexpected_requests = 0) =>
        /\ \A t \in Tasks : pc[t] # "panicked"
        /\ lastVerify.outcome # "panic_poisoned"

(* C7: dispatch never fails: in every reachable state, whatever register,
   dispatch and verify calls came before, no dispatch ends without a
   response. *)
C7_DispatchNeverFails ==
    \A t \in Tasks : pc[t] \in {"done", "panicked"} => resp[t] # None

\* Outside the envelope is outside for good, and never finally valid.
C8_EnvelopeVsValid ==
    \A c \in Times : \A h \in 0..MaxDispatch :
       ~cardinality_not_exceeded(c, h) =>
          /\ ~hit_count_is_valid(c, h)
          /\ ~cardinality_not_exceeded(c, h + 1)

(* C8: a dispatch is answered with the cardinality error only for an
   expectation whose hit_count is outside the not-exceeded envelope; hit
   counters never decrease and expectations stay registered until a
   verify_and_clear resets or clears the registry; a hit_count outside the
   envelope stays outside when it grows and is never finally valid; so
   every verify_and_clear of a registry holding such an expectation, called
   while the test is not already failing, panics. *)
C8_ExceededFailsVerify ==
    [][/\ C8_EnvelopeVsValid
       /\ \A t \in Tasks :
             (CountStep(t) /\ response_future'[t] = CardinalityError) =>
                /\ sel[t] # 0
                /\ ~cardinality_not_exceeded(expected'[sel[t]].cardinality,
                                             expected'[sel[t]].hit_count)
       /\ \A t \in Tasks :
             (RespondStep(t) /\ response_future[t] = CardinalityError) =>
                /\ resp'[t] = CardinalityError
                /\ resp'[t].status = 500
       /\ \/ lastVerify'.outcome \in {"ok", "cleared"}
          \/ /\ Len(expected') >= Len(expected)
             /\ \A i \in 1..Len(expected) :
                   /\ expected'[i].cardinality = expected[i].cardinality
                   /\ expected'[i].hit_count >= expected[i].hit_count
       /\ (/\ VerifyCalled
           /\ ~lastVerify'.panicking
           /\ \E i \in 1..Len(expected) :
                 ~cardinality_not_exceeded(expected[i].cardinality,
                                           expected[i].hit_count)) =>
             /\ lastVerify'.outcome \in VerifyPanics
             /\ expected' = expected]_vars

\* A request was answered with the cardinality error, another request
\* came after it, and the verify_and_clear called then has panicked on the
\* exceeded expectation.
C8_Witness ==
    /\ lastVerify.outcome = "panic_cardinality"
    /\ ~lastVerify.panicking
    /\ Len(expected) = 2
    /\ expected[1].cardinality = Exactly(1)
    /\ expected[1].hit_count = 2
    /\ hit_count_is_valid(expected[2].cardinality, expected[2].hit_count)
    /\ unexpected_requests = 0

\* The tasks that have counted against expectation i of the registry as it
\* is now and have not answered yet.
Counted(i) ==
    {t \in Tasks : pc[t] = "await" /\ seen[t].live /\ sel[t] = i}

(* C9: under concurrent dispatch the select-and-count step is atomic: at
   most one task is between its scan and its store, and the counter it
   loaded is still the registry's at the store; every count adds exactly
   one to the sum of the counters, so no increment is lost; the tasks that
   have counted against the same Exactly(n) expectation hold pairwise
   distinct post-increment counts, a task gets the configured response iff
   its count is <= n and the 500 response otherwise, and when k tasks
   brought hit_count to k exactly min(k, n) of them get the configured
   response. *)
C9_AtomicSelectAndCount ==
    /\ Cardinality({t \in Tasks : pc[t] = "count"}) <= 1
    /\ \A t \in Tasks : pc[t] = "count" <=> holder = t
    /\ \A t \in Tasks :
          pc[t] = "count" =>
             /\ seen[t].fresh
             /\ seen[t].expected = expected
             /\ seen[t].unexpected_requests = unexpected_requests
             /\ sel[t] = FirstMatch(expected, req[t])
             /\ hit[t] = IF sel[t] # 0 THEN expected[sel[t]].hit_count
                         ELSE unexpected_requests
    /\ \A t \in Tasks :
          JustCounted(t) =>
             SumHits(expected, Len(expected)) + unexpected_requests =
                SumHits(seen[t].expected, Len(seen[t].expected))
                + seen[t].unexpected_requests + 1
    /\ \A i \in 1..Len(expected) :
          expected[i].cardinality.kind = "Exactly" =>
             LET n == expected[i].cardinality.hi
                 k == Cardinality(Counted(i))
                 served == {t \in Counted(i) :
                               response_future[t] =
                                  Responder(expected[i].responder)}
                 refused == {t \in Counted(i) :
                                response_future[t] = CardinalityError}
             IN /\ \A t \in Counted(i) : \A u \in Counted(i) :
                      t # u => hit[t] # hit[u]
                /\ \A t \in Counted(i) :
                      /\ hit[t] \in 1..expected[i].hit_count
                      /\ t \in served <=> hit[t] <= n
                      /\ t \in refused <=> hit[t] > n
                /\ expected[i].hit_count = k =>
                      /\ Cardinality(served) = (IF k <= n THEN k ELSE n)
                      /\ Cardinality(refused) = k - Cardinality(served)

\* Two requests in flight at once have both counted against one
\* Exactly(1) expectation: hit_count is 2, one task holds the configured
\* response and the other the cardinality error.
C9_Witness ==
    /\ Len(expected) = 1
    /\ expected[1].cardinality = Exactly(1)
    /\ expected[1].hit_count = 2
    /\ Counted(1) = {1, 2}
    /\ response_future[1] = CardinalityError
    /\ response_future[2] = Responder(expected[1].responder)

(* C10: a dispatch never holds the registry lock while it awaits its
   response: the guard is alive only between the scan and the store, so
   while dispatches are suspended in their responders and none is
   counting, the lock is free for another dispatch, a register or a
   verify. *)
C10_NoLockWhileAwaiting ==
    /\ \A t \in Tasks : pc[t] = "await" => holder # t
    /\ \A t \in Tasks : holder = t => pc[t] = "count"
    /\ (\A t \in Tasks : pc[t] # "count") => LockFree

\* While task 1 is suspended in its responder, task 2 has taken the lock
\* and is counting.
C10_Witness ==
    /\ pc[1] = "await"
    /\ response_future[1].kind = "Responder"
    /\ pc[2] = "count"
    /\ holder = 2

(* C11: verify_and_clear invoked while the test is already failing (the
   thread is panicking) does not itself fail, whatever the hit counts and
   the unmatched count are and whatever happened before, an earlier
   explicit verify that failed included, and it leaves the expectation
   sequence empty. *)
C11_PanickingVerifyOnlyClears ==
    (lastVerify.outcome # "none" /\ lastVerify.panicking) =>
       /\ lastVerify.outcome = "cleared"
       /\ expected = <<>>

\* A verify_and_clear that panicked has left the counters alone.
C12_Aborted ==
    lastVerify.outcome \in VerifyPanics =>
       /\ expected = lastVerify.expected
       /\ unexpected_requests = lastVerify.unexpected_requests

(* C12: whenever verify_and_clear returns normally outside a panic, the
   server state is the initial clean state: the expectation sequence is
   empty and the unmatched-request counter is zero, so that a verify right
   after it succeeds; when it returns normally during an already-failing
   test, the expectation sequence is empty and the unmatched-request
   counter is kept; whenever it panics, the expectation sequence, the hit
   counters and the unmatched counter are left unchanged. *)
C12_VerifyFrame ==
    /\ lastVerify.outcome = "ok" =>
          /\ expected = <<>>
          /\ unexpected_requests = 0
          /\ VerifyOutcome(FALSE) = "ok"
    /\ lastVerify.outcome = "cleared" =>
          /\ expected = <<>>
          /\ unexpected_requests = lastVerify.unexpected_requests
    /\ C12_Aborted

(* C12 as stated: every normal return of verify_and_clear, also the one
   during an already-failing test, leaves the initial clean state. *)
C12_NormalReturnIsClean ==
    /\ lastVerify.outcome \in {"ok", "cleared"} =>
          /\ expected = <<>>
          /\ unexpected_requests = 0
          /\ VerifyOutcome(FALSE) = "ok"
    /\ C12_Aborted

\* verify_and_clear has returned normally with requests counted: it found
\* an expectation that had been hit and no unexpected request.
C12_Witness ==
    /\ lastVerify.outcome = "ok"
    /\ Len(lastVerify.expected) = 1
    /\ lastVerify.expected[1].hit_count = 2
    /\ expected = <<>>
    /\ unexpected_requests = 0
    /\ ~poisoned

(* C13: dropping the server handle runs verify_and_clear, and only after
   the listener has been told to shut down and its thread has been joined:
   from the join on the listener is stopped, no on_req task is left at a
   position from which it could scan, count or respond, and nobody holds
   the lock; when the drop is over verify_and_clear has run, and the
   counters it judged are the final ones. *)
C13_DropVerifiesAfterJoin ==
    /\ testpc \in {"joined", "end"} =>
          /\ listener = "stopped"
          /\ \A t \in Tasks : pc[t] = "stopped"
          /\ holder = 0
    /\ testpc = "end" =>
          /\ lastVerify.outcome # "none"
          /\ lastVerify.outcome = "ok" =>
                expected = <<>> /\ unexpected_requests = 0
          /\ lastVerify.outcome \in VerifyPanics =>
                /\ expected = lastVerify.expected
                /\ unexpected_requests = lastVerify.unexpected_requests
    /\ (lastVerify.outcome # "none" /\ testpc = "body") =>
          listener = "serving"

\* The handle was dropped at the end of a test that did not fail, and the
\* drop-time verify_and_clear has panicked on an expectation that was hit
\* less often than it requires.
C13_Witness ==
    /\ testpc = "end"
    /\ lastVerify.outcome = "panic_cardinality"
    /\ ~lastVerify.panicking
    /\ Len(expected) = 1
    /\ expected[1].cardinality = AtLeast(2)
    /\ expected[1].hit_count = 1
    /\ listener = "stopped"

\* A registry holding one default expectation of hit_count h and nothing
\* else.
C14_DefaultAlone(exps, h) ==
    /\ Len(exps) = 1
    /\ \E m \in Matchers : exps = <<[Default(m, 1) EXCEPT !.hit_count = h]>>

\* What the builder makes of every matcher, cardinality and responder the
\* test can pass to it.
C14_Builder ==
    \A m \in Matchers : \A r \in 1..MaxExpect :
       /\ Default(m, r).cardinality = Exactly(1)
       /\ Default(m, r).hit_count = 0
       /\ Default(m, r).matcher = m
       /\ Default(m, r).responder = r
       /\ \A c \in Times :
             /\ Built(m, c, r).cardinality = c
             /\ Built(m, c, r).hit_count = 0
             /\ times(ExpectationBuilder(m), c).matcher = m

(* C14: an expectation built with matching(..).respond_with(..) without
   times(..) has cardinality Exactly(1) and hit_count 0, and times(c)
   replaces the default with c; with such a default expectation registered
   alone, the first matching request gets the configured response and
   brings hit_count to 1, the second matching request gets the 500
   response, and a verify_and_clear after it panics. *)
C14_DefaultIsExactlyOne ==
    /\ expected = <<>> => C14_Builder
    /\ \A t \in Tasks :
          (JustCounted(t) /\ sel[t] = 1) =>
             /\ C14_DefaultAlone(seen[t].expected, 0) =>
                   /\ response_future[t] = Responder(1)
                   /\ C14_DefaultAlone(expected, 1)
             /\ C14_DefaultAlone(seen[t].expected, 1) =>
                   /\ response_future[t] = CardinalityError
                   /\ response_future[t].status = 500
                   /\ C14_DefaultAlone(expected, 2)
    /\ (/\ lastVerify.outcome # "none"
        /\ ~lastVerify.panicking
        /\ C14_DefaultAlone(lastVerify.expected, 2)) =>
           lastVerify.outcome \in VerifyPanics

\* The second matching request has just been counted against a default
\* expectation registered alone: it gets the cardinality error.
C14_Witness ==
    /\ JustCounted(1)
    /\ C14_DefaultAlone(seen[1].expected, 1)
    /\ C14_DefaultAlone(expected, 2)
    /\ response_future[1] = CardinalityError

\* The list all_of! gets for method_path(m, p).
MethodAndPath(m, p) == <<<<"method", m>>, <<"path", p>>>>

(* C15: for every method matcher m, path matcher p and request R,
   method_path(m, p) matches R if and only if m matches R's method and p
   matches R's path, which is what all_of![method(m), path(p)] returns; it
   rejects a request with matching method but non-matching path and a
   request with matching path but non-matching method, and the path
   matcher is not evaluated when the method matcher fails. *)
C15_MethodPathIsAllOf ==
    /\ mapper[1] = "method_path" =>
          LET m == mapper[2]
              p == mapper[3]
          IN /\ out <=> (input.method \in m /\ input.path \in p)
             /\ out = AllOfMap(MethodAndPath(m, p), input)
             /\ passed = AllOfPassed(MethodAndPath(m, p), input)
             /\ (input.method \in m /\ input.path \notin p) => ~out
             /\ (input.method \notin m /\ input.path \in p) => ~out
             /\ input.method \notin m => passed = <<input.method>>
             /\ input.method \in m => passed = <<input.method, input.path>>
    /\ mapper[1] = "all_of" =>
          /\ out = MethodPathMap(mapper[2], mapper[3], input)
          /\ passed = MethodPathPassed(mapper[2], mapper[3], input)

\* method_path("GET", "/foo") has rejected POST /foo without calling the
\* path matcher.
C15_Witness ==
    /\ mapper = <<"method_path", {"GET"}, {"/foo"}>>
    /\ input.method = "POST"
    /\ input.path = "/foo"
    /\ ~out
    /\ passed = <<"POST">>

(* C16: query extraction passes the query text of the request URI to the
   inner mapper, and for a request whose URI has no query component it
   passes the empty string, so query("") matches every request without a
   query component. *)
C16_QueryOrEmpty ==
    mapper[1] = "query" =>
       /\ Len(passed) = 1
       /\ input.query # <<>> => passed[1] = input.query[1]
       /\ input.query = <<>> => passed[1] = ""
       /\ out <=> passed[1] \in mapper[2]
       /\ (input.query = <<>> /\ mapper[2] = {""}) => out

\* query("") has matched a request whose URI has no query component.
C16_Witness ==
    /\ mapper = <<"query", {""}>>
    /\ input.query = <<>>
    /\ passed = <<"">>
    /\ out

(* C17: header extraction yields one KV entry per received header value,
   in the order the headers were received, preserving multiplicities: the
   sequence passed to the inner mapper is the sequence of header lines as
   received, so that a:1, b:2, a:3 is extracted as [a:1, b:2, a:3]. *)
C17_HeadersInReceivedOrder ==
    mapper[1] = "headers" => passed = <<input.headers>>

\* The hit_count of expectation e is outside the not-exceeded envelope.
Blown(e) == ~cardinality_not_exceeded(e.cardinality, e.hit_count)

(* C18: first match wins even when blown: once the most recently
   registered expectation matching a request has exceeded its cardinality,
   a further such request is answered with the cardinality error and adds
   one to that expectation's hit counter only; an older expectation that
   also matches, with capacity left or not, is not reached and not
   incremented, and the request is not counted as unmatched. *)
C18_BlownFirstMatchStillWins ==
    \A t \in Tasks :
       (/\ JustCounted(t)
        /\ MatchingIn(seen[t].expected, req[t]) # {}
        /\ Blown(seen[t].expected[Newest(MatchingIn(seen[t].expected, req[t]))])) =>
          LET before == seen[t].expected
              newest == Newest(MatchingIn(before, req[t]))
          IN /\ response_future[t] = CardinalityError
             /\ sel[t] = newest
             /\ Len(expected) = Len(before)
             /\ expected[newest] =
                   [before[newest] EXCEPT !.hit_count = before[newest].hit_count + 1]
             /\ Blown(expected[newest])
             /\ \A older \in 1..Len(before) :
                   older # newest => expected[older] = before[older]
             /\ unexpected_requests = seen[t].unexpected_requests

\* A request matching both expectations has just been counted against the
\* newer one, which was blown already; the older one has never been hit
\* and would have had room for it.
C18_Witness ==
    /\ JustCounted(1)
    /\ Len(expected) = 2
    /\ MatchingIn(seen[1].expected, req[1]) = {1, 2}
    /\ Blown(seen[1].expected[2])
    /\ expected[2].hit_count = seen[1].expected[2].hit_count + 1
    /\ response_future[1] = CardinalityError
    /\ expected[1].hit_count = 0
    /\ expected[1].cardinality = AtLeast(1)
    /\ unexpected_requests = 0

(* C19: once the registry lock is poisoned by a panic raised while it was
   held (a verify_and_clear that panicked), it stays poisoned and every
   later register, dispatch and verify panics at the lock before it reads
   or changes a counter: the registry and the unmatched counter keep their
   values, no task enters the critical section, a task started for a new
   request ends without a response, and verify_and_clear ends with the
   panic of the lock. *)
C19_PoisonedFailsFast ==
    [][/\ (VerifyCalled /\ lastVerify'.outcome \in VerifyPanics) => poisoned'
       /\ poisoned =>
             /\ poisoned'
             /\ expected' = expected
             /\ unexpected_requests' = unexpected_requests
             /\ holder' = 0
             /\ \A t \in Tasks : pc'[t] # "count"
             /\ \A t \in Tasks :
                   (pc'[t] # pc[t] /\ Free(t) /\ listener' = "serving") =>
                      /\ pc'[t] = "panicked"
                      /\ resp'[t] = None
             /\ VerifyCalled => lastVerify'.outcome = "panic_poisoned"
             /\ (panicking' # panicking /\ testpc' = "body") => panicking']_vars

\* After a verify_and_clear that panicked and was caught, a dispatch has
\* died at the lock and a register has panicked at the lock; the registry
\* is as the failed verify left it.
C19_Witness ==
    /\ poisoned
    /\ pc[1] = "panicked"
    /\ resp[1] = None
    /\ panicking
    /\ testpc = "body"
    /\ Len(expected) = 1
    /\ expected[1].cardinality = AtLeast(2)
    /\ expected[1].hit_count = 1

\* The select-and-count step that took the registry from `before` to
\* `after` changed hit_count of expectation i by one and nothing else.
OnlyHit(before, after, i) ==
    /\ after[i] = [before[i] EXCEPT !.hit_count = before[i].hit_count + 1]
    /\ \A j \in 1..Len(before) : j # i => after[j] = before[j]

(* C20: counter conservation: every completed select-and-count step of a
   dispatch adds exactly one to exactly one counter, either the hit_count
   of one expectation or the unmatched-request counter, and leaves the
   length, the order, the matchers and the cardinalities of the registry
   unchanged; hence in every reachable state the sum of all hit counts plus
   the unmatched counter equals the number of requests dispatched since the
   last reset (requests between their scan and their store not counted
   yet), except that a clear performed during an already-failing test
   drops the hit counts and keeps the unmatched counter. *)
C20_CounterConservation ==
    /\ \A t \in Tasks :
          JustCounted(t) =>
             /\ Len(expected) = Len(seen[t].expected)
             /\ \/ /\ unexpected_requests = seen[t].unexpected_requests
                   /\ \E i \in 1..Len(expected) :
                         OnlyHit(seen[t].expected, expected, i)
                \/ /\ unexpected_requests = seen[t].unexpected_requests + 1
                   /\ expected = seen[t].expected
    /\ IF lastVerify.outcome = "cleared"
       THEN /\ expected = <<>>
            /\ unexpected_requests = lastVerify.unexpected_requests
       ELSE SumHits(expected, Len(expected)) + unexpected_requests
            + Cardinality({t \in Tasks : pc[t] = "count"}) = dispatched

=============================================================================
